---- MODULE Spec2Model ----
(***************************************************************************)
(* Cassette Objects: the slot table (cinputs), the reference registry      *)
(* (cref) and the string arena (cbook).                                    *)
(*                                                                         *)
(* Every C function is an operator from the instance (a record of the      *)
(* struct's fields), its arguments and the outcome of the allocations it   *)
(* attempts to the instance it leaves behind.  An action applies one       *)
(* public function to the instance under test.  The three containers       *)
(* share no state and never call each other, so a behaviour exercises one  *)
(* of them (target); the other two variables stay at their placeholder     *)
(* instances, which exist in every process.                                *)
(*                                                                         *)
(* Arrays are indexed from 0 as in the source.  slots[], words[] and       *)
(* groups[] are modelled on their live prefix [0, n): no function reads    *)
(* an element at or beyond n.  chars[] is modelled on the whole allocated  *)
(* buffer, stale and uninitialised bytes included.                         *)
(***************************************************************************)
EXTENDS Integers, Sequences, FiniteSets, TLC

VARIABLES
    target,   \* the container this behaviour exercises
    handle,   \* "valid" | "placeholder" | "freed": what the caller's pointer designates
    inputs,   \* struct cinputs
    ref,      \* struct cref
    book,     \* struct cbook
    oob,      \* TRUE once a function indexed an array outside its allocation
    call,     \* history: the last public call, [op, arg]
    pre,      \* history: the target instance as it was before that call
    run,      \* history: a cref scenario of push(p) calls followed by pull_ptr(p) calls
    log,      \* history: the strings written to the book since it was last empty
    trail,    \* history: the book's counters and flag before the current run of calls
    twin      \* the instance the last call returned, if that call was a clone

vars == <<target, handle, inputs, ref, book, oob, call, pre, run, log, trail, twin>>

-----------------------------------------------------------------------------
(* Bounds of the model *)

\* The size limit of the platform, scaled down (SIZE_MAX of <stdint.h>).
SIZE_MAX == 79

\* The largest unsigned int, scaled down (UINT_MAX of <limits.h>).
UINT_MAX == 3

\* Slot ids pushed to a cinputs are 0..MaxId.
MaxId == 2

\* Capacities requested from cinputs_create, cinputs_resize and cref_prealloc are 0..MaxSlots
\* (and the smallest count whose byte size overflows).
MaxSlots == 2

\* A cbook is written to while it holds fewer than MaxWords words.
MaxWords == 2

-----------------------------------------------------------------------------
(* Program constants *)

\* sizeof(struct slot) of cinputs on an LP64 target: unsigned + 2 * int16_t + void *.
SizeofInputsSlot == 16

\* sizeof(struct slot) of cref on an LP64 target: void * + unsigned (padded).
SizeofRefSlot == 16

\* sizeof(size_t) on an LP64 target.
SizeofSizeT == 8

NULL == "NULL"

CERR_NONE     == "CERR_NONE"
CERR_INVALID  == "CERR_INVALID"
CERR_PARAM    == "CERR_PARAM"
CERR_OVERFLOW == "CERR_OVERFLOW"
CERR_MEMORY   == "CERR_MEMORY"

\* No value: an out-parameter left unset, a history variable that does not apply.
Void == "void"

Min(a, b) == IF a < b THEN a ELSE b

\* The empty array.
Empty == [i \in {} |-> Void]

\* Array a of length n with element i removed by memmove(a + i, a + i + 1, (n - 1 - i) * size).
MemmoveDown(a, n, i) == [j \in 0 .. (n - 2) |-> IF j < i THEN a[j] ELSE a[j + 1]]

\* safe_mul(result, a, b): whether a * b fits the size limit; when it does and result is
\* given, the product is stored there.
safe_mul(a, b) == a * b <= SIZE_MAX

-----------------------------------------------------------------------------
(* cinputs *)

cinputs_placeholder_instance ==
    [slots |-> Empty, default_ptr |-> NULL, n |-> 0, n_alloc |-> 0, err |-> CERR_INVALID]

\* The conversion of an int to int16_t on assignment (modulo 2^16, as gcc and clang define it).
ToInt16(v) == ((v + 32768) % 65536) - 32768

\* static resize(): [ret, obj].
\* resize() without the test of the byte size.
resize_nocheck(in, n, realloc_ok) ==
    IF n = 0
    THEN [ret |-> FALSE, obj |-> [in EXCEPT !.err = CERR_PARAM]]
    ELSE IF ~realloc_ok
    THEN [ret |-> FALSE, obj |-> [in EXCEPT !.err = CERR_MEMORY]]
    ELSE [ret |-> TRUE,
          obj |-> [in EXCEPT !.n       = Min(n, in.n),
                             !.n_alloc = n,
                             !.slots   = [i \in 0 .. (Min(n, in.n) - 1) |-> in.slots[i]]]]

\* resize() leaving the length as it is when the new capacity is below it.
resize_notrunc(in, n, realloc_ok) ==
    IF n = 0
    THEN [ret |-> FALSE, obj |-> [in EXCEPT !.err = CERR_PARAM]]
    ELSE IF ~safe_mul(n, SizeofInputsSlot)
    THEN [ret |-> FALSE, obj |-> [in EXCEPT !.err = CERR_OVERFLOW]]
    ELSE IF ~realloc_ok
    THEN [ret |-> FALSE, obj |-> [in EXCEPT !.err = CERR_MEMORY]]
    ELSE [ret |-> TRUE, obj |-> [in EXCEPT !.n_alloc = n]]

resize(in, n, realloc_ok) ==
    IF n = 0
    THEN [ret |-> FALSE, obj |-> [in EXCEPT !.err = CERR_PARAM]]
    ELSE IF ~safe_mul(n, SizeofInputsSlot)
    THEN [ret |-> FALSE, obj |-> [in EXCEPT !.err = CERR_OVERFLOW]]
    ELSE IF ~realloc_ok
    THEN [ret |-> FALSE, obj |-> [in EXCEPT !.err = CERR_MEMORY]]
    ELSE [ret |-> TRUE,
          obj |-> [in EXCEPT !.n       = Min(n, in.n),
                             !.n_alloc = n,
                             !.slots   = [i \in 0 .. (Min(n, in.n) - 1) |-> in.slots[i]]]]

\* calloc(1, sizeof(cinputs)).
cinputs_calloc == [slots |-> Empty, default_ptr |-> NULL, n |-> 0, n_alloc |-> 0, err |-> CERR_NONE]

\* cinputs_create(): [handle, obj].
cinputs_create(max_inputs, calloc_ok, realloc_ok) ==
    IF ~calloc_ok \/ ~resize(cinputs_calloc, max_inputs, realloc_ok).ret
    THEN [handle |-> "placeholder", obj |-> cinputs_placeholder_instance]
    ELSE [handle |-> "valid",
          obj |-> [resize(cinputs_calloc, max_inputs, realloc_ok).obj
                      EXCEPT !.default_ptr = NULL, !.n = 0, !.err = CERR_NONE]]

\* cinputs_clone(): [handle, obj, own].  own says that the slot array of the clone is an
\* allocation of its own (resize() on the calloc'ed instance), not the array of the source.
cinputs_clone(in, calloc_ok, realloc_ok) ==
    IF in.err # CERR_NONE \/ ~calloc_ok \/ ~resize(cinputs_calloc, in.n_alloc, realloc_ok).ret
    THEN [handle |-> "placeholder", obj |-> cinputs_placeholder_instance, own |-> TRUE]
    ELSE [handle |-> "valid",
          obj |-> [resize(cinputs_calloc, in.n_alloc, realloc_ok).obj
                      EXCEPT !.slots       = [i \in 0 .. (in.n - 1) |-> in.slots[i]],
                             !.default_ptr = in.default_ptr,
                             !.n           = in.n,
                             !.err         = CERR_NONE],
          own |-> TRUE]

cinputs_clear(in) ==
    IF in.err # CERR_NONE THEN in ELSE [in EXCEPT !.n = 0, !.slots = Empty]

\* cinputs_find(): [ret, index]; *index is written only when the id is found.
cinputs_find(in, id) ==
    IF in.err # CERR_NONE \/ ~(\E i \in 0 .. (in.n - 1) : in.slots[i].id = id)
    THEN [ret |-> FALSE, index |-> Void]
    ELSE [ret |-> TRUE,
          index |-> CHOOSE i \in 0 .. (in.n - 1) :
                        /\ in.slots[i].id = id
                        /\ \A j \in 0 .. (i - 1) : in.slots[j].id # id]

cinputs_id(in, index) ==
    IF in.err # CERR_NONE \/ index >= in.n THEN 0 ELSE in.slots[index].id

cinputs_load(in) ==
    IF in.err # CERR_NONE THEN 0 ELSE in.n

\* cinputs_ptr() without the test of the error.
cinputs_ptr_unchecked(in, index) ==
    IF index >= in.n THEN in.default_ptr ELSE in.slots[index].ptr

cinputs_ptr(in, index) ==
    IF in.err # CERR_NONE \/ index >= in.n THEN in.default_ptr ELSE in.slots[index].ptr

cinputs_x(in, index) ==
    IF in.err # CERR_NONE \/ index >= in.n THEN 0 ELSE in.slots[index].x

cinputs_y(in, index) ==
    IF in.err # CERR_NONE \/ index >= in.n THEN 0 ELSE in.slots[index].y

\* cinputs_pull_index() without the memmove: the last entry goes, not entry index.
cinputs_pull_index_nomove(in, index) ==
    IF in.err # CERR_NONE \/ index >= in.n
    THEN in
    ELSE [in EXCEPT !.n = in.n - 1, !.slots = [i \in 0 .. (in.n - 2) |-> in.slots[i]]]

cinputs_pull_index(in, index) ==
    IF in.err # CERR_NONE \/ index >= in.n
    THEN in
    ELSE [in EXCEPT !.n = in.n - 1, !.slots = MemmoveDown(in.slots, in.n, index)]

cinputs_pull_id(in, id) ==
    IF cinputs_find(in, id).ret
    THEN cinputs_pull_index(in, cinputs_find(in, id).index)
    ELSE in

\* cinputs_push() without the cinputs_pull_id() that removes the id's previous entry.
cinputs_push_nopull(in, id, x, y, ptr) ==
    IF in.err # CERR_NONE \/ in.n >= in.n_alloc
    THEN in
    ELSE [in EXCEPT !.n = in.n + 1,
                    !.slots = [i \in 0 .. in.n |->
                                  IF i < in.n
                                  THEN in.slots[i]
                                  ELSE [id |-> id, x |-> ToInt16(x), y |-> ToInt16(y), ptr |-> ptr]]]

\* cinputs_push() with the capacity test off by one (n > n_alloc).
cinputs_push_offbyone(in, id, x, y, ptr) ==
    IF in.err # CERR_NONE
    THEN in
    ELSE LET t == cinputs_pull_id(in, id) IN
         IF t.n > t.n_alloc
         THEN t
         ELSE [t EXCEPT !.n = t.n + 1,
                        !.slots = [i \in 0 .. t.n |->
                                      IF i < t.n
                                      THEN t.slots[i]
                                      ELSE [id |-> id, x |-> ToInt16(x), y |-> ToInt16(y), ptr |-> ptr]]]

\* cinputs_push() overwriting the entry of an id that is present where it stands.
cinputs_push_inplace(in, id, x, y, ptr) ==
    IF in.err # CERR_NONE
    THEN in
    ELSE IF cinputs_find(in, id).ret
    THEN [in EXCEPT !.slots[cinputs_find(in, id).index] =
                        [id |-> id, x |-> ToInt16(x), y |-> ToInt16(y), ptr |-> ptr]]
    ELSE IF in.n >= in.n_alloc
    THEN in
    ELSE [in EXCEPT !.n = in.n + 1,
                    !.slots = [i \in 0 .. in.n |->
                                  IF i < in.n
                                  THEN in.slots[i]
                                  ELSE [id |-> id, x |-> ToInt16(x), y |-> ToInt16(y), ptr |-> ptr]]]

cinputs_push(in, id, x, y, ptr) ==
    IF in.err # CERR_NONE
    THEN in
    ELSE LET t == cinputs_pull_id(in, id) IN
         IF t.n >= t.n_alloc
         THEN t
         ELSE [t EXCEPT !.n = t.n + 1,
                        !.slots = [i \in 0 .. t.n |->
                                      IF i < t.n
                                      THEN t.slots[i]
                                      ELSE [id |-> id, x |-> ToInt16(x), y |-> ToInt16(y), ptr |-> ptr]]]

cinputs_repair(in) ==
    IF in.err # CERR_INVALID THEN [in EXCEPT !.err = CERR_NONE] ELSE in

cinputs_resize(in, max_inputs, realloc_ok) ==
    IF in.err # CERR_NONE THEN in ELSE resize(in, max_inputs, realloc_ok).obj

cinputs_set_default_ptr(in, ptr) ==
    IF in.err # CERR_NONE THEN in ELSE [in EXCEPT !.default_ptr = ptr]

-----------------------------------------------------------------------------
(* cref *)

cref_placeholder_instance ==
    [slots |-> Empty, n |-> 0, n_alloc |-> 0, default_ptr |-> NULL, err |-> CERR_INVALID]

\* grow() of cref without the test n <= n_alloc: the capacity is set to n, lower or not.
cref_grow_exact(r, n, realloc_ok) ==
    IF ~safe_mul(n, SizeofRefSlot)
    THEN [ret |-> FALSE, obj |-> [r EXCEPT !.err = CERR_OVERFLOW]]
    ELSE IF ~realloc_ok
    THEN [ret |-> FALSE, obj |-> [r EXCEPT !.err = CERR_MEMORY]]
    ELSE [ret |-> TRUE, obj |-> [r EXCEPT !.n_alloc = n]]

\* static grow() of cref: [ret, obj].
cref_grow(r, n, realloc_ok) ==
    IF n <= r.n_alloc
    THEN [ret |-> TRUE, obj |-> r]
    ELSE IF ~safe_mul(n, SizeofRefSlot)
    THEN [ret |-> FALSE, obj |-> [r EXCEPT !.err = CERR_OVERFLOW]]
    ELSE IF ~realloc_ok
    THEN [ret |-> FALSE, obj |-> [r EXCEPT !.err = CERR_MEMORY]]
    ELSE [ret |-> TRUE, obj |-> [r EXCEPT !.n_alloc = n]]

\* static pull() of cref.
pull(r, i) ==
    [r EXCEPT !.n = r.n - 1, !.slots = MemmoveDown(r.slots, r.n, i)]

\* calloc(1, sizeof(cref)).
cref_calloc == [slots |-> Empty, n |-> 0, n_alloc |-> 0, default_ptr |-> NULL, err |-> CERR_NONE]

\* cref_create(): [handle, obj].
cref_create(calloc_ok, realloc_ok) ==
    IF ~calloc_ok \/ ~cref_grow(cref_calloc, 1, realloc_ok).ret
    THEN [handle |-> "placeholder", obj |-> cref_placeholder_instance]
    ELSE [handle |-> "valid",
          obj |-> [cref_grow(cref_calloc, 1, realloc_ok).obj
                      EXCEPT !.n = 0, !.default_ptr = NULL, !.err = CERR_NONE]]

\* cref_clone() cloning an instance in error as well.
cref_clone_anyway(r, calloc_ok, realloc_ok) ==
    IF ~calloc_ok \/ ~cref_grow(cref_calloc, r.n_alloc, realloc_ok).ret
    THEN [handle |-> "placeholder", obj |-> cref_placeholder_instance, own |-> TRUE]
    ELSE [handle |-> "valid",
          obj |-> [cref_grow(cref_calloc, r.n_alloc, realloc_ok).obj
                      EXCEPT !.slots       = [i \in 0 .. (r.n - 1) |-> r.slots[i]],
                             !.n           = r.n,
                             !.default_ptr = r.default_ptr,
                             !.err         = CERR_NONE],
          own |-> TRUE]

\* cref_clone(): [handle, obj, own], as cinputs_clone().
cref_clone(r, calloc_ok, realloc_ok) ==
    IF r.err # CERR_NONE \/ ~calloc_ok \/ ~cref_grow(cref_calloc, r.n_alloc, realloc_ok).ret
    THEN [handle |-> "placeholder", obj |-> cref_placeholder_instance, own |-> TRUE]
    ELSE [handle |-> "valid",
          obj |-> [cref_grow(cref_calloc, r.n_alloc, realloc_ok).obj
                      EXCEPT !.slots       = [i \in 0 .. (r.n - 1) |-> r.slots[i]],
                             !.n           = r.n,
                             !.default_ptr = r.default_ptr,
                             !.err         = CERR_NONE],
          own |-> TRUE]

\* cref_clear() without its error check.
cref_clear_unchecked(r) == [r EXCEPT !.n = 0, !.slots = Empty]

cref_clear(r) ==
    IF r.err # CERR_NONE THEN r ELSE [r EXCEPT !.n = 0, !.slots = Empty]

cref_count(r, index) ==
    IF r.err # CERR_NONE \/ index >= r.n THEN 0 ELSE r.slots[index].n_ref

\* cref_find(): [ret, index]; *index is written only when the pointer is found.
cref_find(r, ptr) ==
    IF r.err # CERR_NONE \/ ~(\E i \in 0 .. (r.n - 1) : r.slots[i].ptr = ptr)
    THEN [ret |-> 0, index |-> Void]
    ELSE LET i == CHOOSE i \in 0 .. (r.n - 1) :
                      /\ r.slots[i].ptr = ptr
                      /\ \A j \in 0 .. (i - 1) : r.slots[j].ptr # ptr
         IN  [ret |-> r.slots[i].n_ref, index |-> i]

cref_length(r) ==
    IF r.err # CERR_NONE THEN 0 ELSE r.n

cref_prealloc(r, slots_number, realloc_ok) ==
    IF r.err # CERR_NONE THEN r ELSE cref_grow(r, slots_number, realloc_ok).obj

cref_ptr(r, index) ==
    IF r.err # CERR_NONE \/ index >= r.n THEN r.default_ptr ELSE r.slots[index].ptr

\* cref_pull_index() removing the slot whatever its count.
cref_pull_index_always(r, index) ==
    IF r.err # CERR_NONE \/ index >= r.n THEN r ELSE pull(r, index)

\* --ref->slots[index].n_ref is stored whether or not the slot is then removed.
cref_pull_index(r, index) ==
    IF r.err # CERR_NONE \/ index >= r.n
    THEN r
    ELSE LET d == [r EXCEPT !.slots[index].n_ref = (r.slots[index].n_ref - 1) % (UINT_MAX + 1)] IN
         IF d.slots[index].n_ref > 0 THEN d ELSE pull(d, index)

\* i is initialised to 0 and only used when the pointer is found.
cref_pull_ptr(r, ptr) ==
    IF cref_find(r, ptr).ret > 0
    THEN cref_pull_index(r, cref_find(r, ptr).index)
    ELSE r

\* cref_purge_index() honouring the count, as cref_pull_index() does.
cref_purge_index_counted(r, index) == cref_pull_index(r, index)

cref_purge_index(r, index) ==
    IF r.err # CERR_NONE \/ index >= r.n THEN r ELSE pull(r, index)

cref_purge_ptr(r, ptr) ==
    IF cref_find(r, ptr).ret > 0
    THEN cref_purge_index(r, cref_find(r, ptr).index)
    ELSE r

\* cref_push() without the search for an existing entry.
cref_push_nofind(r, ptr, realloc_ok) ==
    IF r.err # CERR_NONE
    THEN r
    ELSE IF r.n >= r.n_alloc /\ ~safe_mul(r.n_alloc, 2)
    THEN [r EXCEPT !.err = CERR_OVERFLOW]
    ELSE IF r.n >= r.n_alloc /\ ~cref_grow(r, r.n_alloc * 2, realloc_ok).ret
    THEN cref_grow(r, r.n_alloc * 2, realloc_ok).obj
    ELSE LET g == IF r.n >= r.n_alloc THEN cref_grow(r, r.n_alloc * 2, realloc_ok).obj ELSE r IN
         [g EXCEPT !.n = g.n + 1,
                   !.slots = [i \in 0 .. g.n |->
                                 IF i < g.n THEN g.slots[i] ELSE [ptr |-> ptr, n_ref |-> 1]]]

\* cref_push() without the test of the count: n_ref++ wraps at UINT_MAX.
cref_push_wrap(r, ptr, realloc_ok) ==
    IF r.err = CERR_NONE /\ cref_find(r, ptr).ret > 0
    THEN [r EXCEPT !.slots[cref_find(r, ptr).index].n_ref =
                       (r.slots[cref_find(r, ptr).index].n_ref + 1) % (UINT_MAX + 1)]
    ELSE cref_push_nofind(r, ptr, realloc_ok)

\* cref_push() dropping the pointer when the array is full, as cinputs_push() does.
cref_push_nogrow(r, ptr, realloc_ok) ==
    IF r.err # CERR_NONE
    THEN r
    ELSE IF cref_find(r, ptr).ret > 0
    THEN LET i == cref_find(r, ptr).index IN
         IF r.slots[i].n_ref = UINT_MAX
         THEN [r EXCEPT !.err = CERR_OVERFLOW]
         ELSE [r EXCEPT !.slots[i].n_ref = r.slots[i].n_ref + 1]
    ELSE IF r.n >= r.n_alloc
    THEN r
    ELSE [r EXCEPT !.n = r.n + 1,
                   !.slots = [i \in 0 .. r.n |->
                                 IF i < r.n THEN r.slots[i] ELSE [ptr |-> ptr, n_ref |-> 1]]]

cref_push(r, ptr, realloc_ok) ==
    IF r.err # CERR_NONE
    THEN r
    ELSE IF cref_find(r, ptr).ret > 0
    THEN LET i == cref_find(r, ptr).index IN
         IF r.slots[i].n_ref = UINT_MAX
         THEN [r EXCEPT !.err = CERR_OVERFLOW]
         ELSE [r EXCEPT !.slots[i].n_ref = r.slots[i].n_ref + 1]
    ELSE IF r.n >= r.n_alloc /\ ~safe_mul(r.n_alloc, 2)
    THEN [r EXCEPT !.err = CERR_OVERFLOW]
    ELSE IF r.n >= r.n_alloc /\ ~cref_grow(r, r.n_alloc * 2, realloc_ok).ret
    THEN cref_grow(r, r.n_alloc * 2, realloc_ok).obj
    ELSE LET g == IF r.n >= r.n_alloc THEN cref_grow(r, r.n_alloc * 2, realloc_ok).obj ELSE r IN
         [g EXCEPT !.n = g.n + 1,
                   !.slots = [i \in 0 .. g.n |->
                                 IF i < g.n THEN g.slots[i] ELSE [ptr |-> ptr, n_ref |-> 1]]]

\* cref_repair() clearing CERR_INVALID like any other error.
cref_repair_any(r) == [r EXCEPT !.err = CERR_NONE]

cref_repair(r) ==
    IF r.err # CERR_INVALID THEN [r EXCEPT !.err = CERR_NONE] ELSE r

cref_set_default_ptr(r, ptr) ==
    IF r.err # CERR_NONE THEN r ELSE [r EXCEPT !.default_ptr = ptr]

-----------------------------------------------------------------------------
(* cbook *)

\* The NUL terminator, and a byte whose value is indeterminate (allocated, never written).
NUL  == "NUL"
Junk == "junk"

cbook_placeholder_instance ==
    [chars |-> Empty, words |-> Empty, groups |-> Empty,
     n_chars |-> 0, n_words |-> 0, n_groups |-> 0,
     n_alloc_chars |-> 0, n_alloc_words |-> 0, n_alloc_groups |-> 0,
     new_group |-> FALSE, err |-> CERR_INVALID]

\* realloc(a, n) of an array of old bytes: the contents are kept, the new bytes are indeterminate.
Realloc(a, old, n) == [i \in 0 .. (n - 1) |-> IF i < old THEN a[i] ELSE Junk]

\* The live prefix [0, n) of an array.
Prefix(a, n) == [i \in 0 .. (n - 1) |-> a[i]]

\* a[n] = v on an array modelled on its live prefix [0, n).
Store(a, n, v) == [i \in 0 .. n |-> IF i < n THEN a[i] ELSE v]

\* static group_size().
group_size(b, i) ==
    IF i >= b.n_groups
    THEN 0
    ELSE IF i = b.n_groups - 1
    THEN b.n_words - b.groups[i]
    ELSE b.groups[i + 1] - b.groups[i]

\* static grow() of cbook: [ret, obj].  fail names the realloc that fails, if it is attempted:
\* "chars", "words", "groups", or "none".
cbook_grow(b, n_chars, n_words, n_groups, fail) ==
    IF ~safe_mul(n_words, SizeofSizeT) \/ ~safe_mul(n_groups, SizeofSizeT)
    THEN [ret |-> FALSE, obj |-> [b EXCEPT !.err = CERR_OVERFLOW]]
    ELSE IF n_chars > b.n_alloc_chars /\ fail = "chars"
    THEN [ret |-> FALSE, obj |-> [b EXCEPT !.err = CERR_MEMORY]]
    ELSE LET c == IF n_chars > b.n_alloc_chars
                  THEN [b EXCEPT !.n_alloc_chars = n_chars,
                                 !.chars = Realloc(b.chars, b.n_alloc_chars, n_chars)]
                  ELSE b
         IN
         IF n_words > c.n_alloc_words /\ fail = "words"
         THEN [ret |-> FALSE, obj |-> [c EXCEPT !.err = CERR_MEMORY]]
         ELSE LET w == IF n_words > c.n_alloc_words
                       THEN [c EXCEPT !.n_alloc_words = n_words]
                       ELSE c
              IN
              IF n_groups > w.n_alloc_groups /\ fail = "groups"
              THEN [ret |-> FALSE, obj |-> [w EXCEPT !.err = CERR_MEMORY]]
              ELSE [ret |-> TRUE,
                    obj |-> IF n_groups > w.n_alloc_groups
                            THEN [w EXCEPT !.n_alloc_groups = n_groups]
                            ELSE w]

\* calloc(1, sizeof(cbook)).
cbook_calloc ==
    [chars |-> Empty, words |-> Empty, groups |-> Empty,
     n_chars |-> 0, n_words |-> 0, n_groups |-> 0,
     n_alloc_chars |-> 0, n_alloc_words |-> 0, n_alloc_groups |-> 0,
     new_group |-> FALSE, err |-> CERR_NONE]

\* cbook_create(): [handle, obj].
cbook_create(calloc_ok, fail) ==
    IF ~calloc_ok \/ ~cbook_grow(cbook_calloc, 1, 1, 1, fail).ret
    THEN [handle |-> "placeholder", obj |-> cbook_placeholder_instance]
    ELSE [handle |-> "valid",
          obj |-> [cbook_grow(cbook_calloc, 1, 1, 1, fail).obj
                      EXCEPT !.n_chars = 0, !.n_words = 0, !.n_groups = 0,
                             !.new_group = TRUE, !.err = CERR_NONE]]

\* cbook_clone() leaving the new_group flag of the calloc'ed instance.
cbook_clone_noflag(b, calloc_ok, fail) ==
    IF \/ b.err # CERR_NONE
       \/ ~calloc_ok
       \/ ~cbook_grow(cbook_calloc, b.n_alloc_chars, b.n_alloc_words, b.n_alloc_groups, fail).ret
    THEN [handle |-> "placeholder", obj |-> cbook_placeholder_instance, own |-> TRUE]
    ELSE LET g == cbook_grow(cbook_calloc, b.n_alloc_chars, b.n_alloc_words, b.n_alloc_groups, fail).obj
         IN  [handle |-> "valid",
              obj |-> [g EXCEPT !.chars    = [i \in 0 .. (g.n_alloc_chars - 1) |->
                                                 IF i < b.n_chars THEN b.chars[i] ELSE g.chars[i]],
                                !.words    = Prefix(b.words, b.n_words),
                                !.groups   = Prefix(b.groups, b.n_groups),
                                !.n_chars  = b.n_chars,
                                !.n_words  = b.n_words,
                                !.n_groups = b.n_groups,
                                !.err      = CERR_NONE],
              own |-> TRUE]

\* cbook_clone(): [handle, obj, own].  The three arrays of the clone are allocations of their
\* own (grow() on the calloc'ed instance); n_chars bytes are copied, the rest is indeterminate.
cbook_clone(b, calloc_ok, fail) ==
    IF \/ b.err # CERR_NONE
       \/ ~calloc_ok
       \/ ~cbook_grow(cbook_calloc, b.n_alloc_chars, b.n_alloc_words, b.n_alloc_groups, fail).ret
    THEN [handle |-> "placeholder", obj |-> cbook_placeholder_instance, own |-> TRUE]
    ELSE LET g == cbook_grow(cbook_calloc, b.n_alloc_chars, b.n_alloc_words, b.n_alloc_groups, fail).obj
         IN  [handle |-> "valid",
              obj |-> [g EXCEPT !.chars     = [i \in 0 .. (g.n_alloc_chars - 1) |->
                                                  IF i < b.n_chars THEN b.chars[i] ELSE g.chars[i]],
                                !.words     = Prefix(b.words, b.n_words),
                                !.groups    = Prefix(b.groups, b.n_groups),
                                !.n_chars   = b.n_chars,
                                !.n_words   = b.n_words,
                                !.n_groups  = b.n_groups,
                                !.new_group = b.new_group,
                                !.err       = CERR_NONE],
              own |-> TRUE]

cbook_clear(b) ==
    IF b.err # CERR_NONE
    THEN b
    ELSE [b EXCEPT !.n_groups = 0, !.n_words = 0, !.n_chars = 0, !.new_group = TRUE,
                   !.groups = Empty, !.words = Empty]

cbook_group_length(b, group_index) ==
    IF b.err # CERR_NONE THEN 0 ELSE group_size(b, group_index)

cbook_groups_number(b) ==
    IF b.err # CERR_NONE THEN 0 ELSE b.n_groups

cbook_length(b) ==
    IF b.err # CERR_NONE THEN 0 ELSE b.n_chars

\* cbook_pop_group() without the setting of new_group when no group is left.
cbook_pop_group_noflag(b) ==
    IF b.err # CERR_NONE \/ b.n_groups = 0
    THEN b
    ELSE LET g == b.n_groups - 1 IN
         [b EXCEPT !.n_groups = g,
                   !.n_chars  = b.words[b.groups[g]],
                   !.n_words  = b.groups[g],
                   !.groups   = Prefix(b.groups, g),
                   !.words    = Prefix(b.words, b.groups[g])]

\* cbook_pop_group(): words[groups[n_groups - 1]] is read.
cbook_pop_group(b) ==
    IF b.err # CERR_NONE \/ b.n_groups = 0
    THEN b
    ELSE LET g == b.n_groups - 1 IN
         [b EXCEPT !.n_groups  = g,
                   !.n_chars   = b.words[b.groups[g]],
                   !.n_words   = b.groups[g],
                   !.groups    = Prefix(b.groups, g),
                   !.words     = Prefix(b.words, b.groups[g]),
                   !.new_group = IF g = 0 THEN TRUE ELSE b.new_group]

\* Whether cbook_pop_word() reads groups[n_groups - 1] with n_groups = 0, that is
\* groups[SIZE_MAX]: outside the array.
cbook_pop_word_oob(b) ==
    b.err = CERR_NONE /\ b.n_words # 0 /\ b.n_groups = 0

\* cbook_pop_word().  junk_eq is the outcome of the comparison when the element read lies
\* outside the array (the behaviour is undefined, either outcome is possible); --n_groups is
\* computed in size_t.
cbook_pop_word(b, junk_eq) ==
    IF b.err # CERR_NONE \/ b.n_words = 0
    THEN b
    ELSE LET last_is_group == IF b.n_groups = 0
                              THEN junk_eq
                              ELSE b.groups[b.n_groups - 1] = b.n_words - 1
             g == IF last_is_group THEN (b.n_groups - 1) % (SIZE_MAX + 1) ELSE b.n_groups
         IN
         [b EXCEPT !.n_groups  = g,
                   !.groups    = IF b.n_groups = 0 THEN Empty ELSE Prefix(b.groups, g),
                   !.new_group = IF last_is_group /\ g = 0 THEN TRUE ELSE b.new_group,
                   !.n_words   = b.n_words - 1,
                   !.words     = Prefix(b.words, b.n_words - 1),
                   !.n_chars   = b.words[b.n_words - 1]]

cbook_prealloc(b, bytes_number, words_number, groups_number, fail) ==
    IF b.err # CERR_NONE
    THEN b
    ELSE cbook_grow(b, bytes_number, words_number, groups_number, fail).obj

cbook_prepare_new_group(b) ==
    IF b.err # CERR_NONE THEN b ELSE [b EXCEPT !.new_group = TRUE]

\* cbook_repair() clearing CERR_INVALID like any other error.
cbook_repair_any(b) == [b EXCEPT !.err = CERR_NONE]

cbook_repair(b) ==
    IF b.err # CERR_INVALID THEN [b EXCEPT !.err = CERR_NONE] ELSE b

\* cbook_undo_new_group() without the test of n_groups.
cbook_undo_new_group_always(b) ==
    IF b.err # CERR_NONE THEN b ELSE [b EXCEPT !.new_group = FALSE]

cbook_undo_new_group(b) ==
    IF b.err # CERR_NONE \/ b.n_groups = 0 THEN b ELSE [b EXCEPT !.new_group = FALSE]

\* The C string that starts at chars + off: the bytes up to, not including, the first NUL
\* (or up to the end of the allocated buffer).
RECURSIVE CString(_, _, _)
CString(chars, n_alloc, off) ==
    IF off >= n_alloc \/ chars[off] = NUL
    THEN <<>>
    ELSE <<chars[off]>> \o CString(chars, n_alloc, off + 1)

cbook_word(b, word_index) ==
    IF b.err # CERR_NONE \/ word_index >= b.n_words
    THEN <<>>
    ELSE CString(b.chars, b.n_alloc_chars, b.words[word_index])

cbook_word_in_group(b, group_index, word_local_index) ==
    IF \/ b.err # CERR_NONE
       \/ group_size(b, group_index) = 0
       \/ group_size(b, group_index) <= word_local_index
    THEN <<>>
    ELSE CString(b.chars, b.n_alloc_chars, b.words[b.groups[group_index] + word_local_index])

cbook_word_index(b, group_index, word_local_index) ==
    IF \/ b.err # CERR_NONE
       \/ group_size(b, group_index) = 0
       \/ group_size(b, group_index) <= word_local_index
    THEN 0
    ELSE b.groups[group_index] + word_local_index

cbook_words_number(b) ==
    IF b.err # CERR_NONE THEN 0 ELSE b.n_words

\* The while loop of cbook_write(): nc is doubled until the string fits; [ok, nc], ok FALSE
\* when a doubling overflows.
RECURSIVE write_nc(_, _, _)
write_nc(nc, n_chars, ns) ==
    IF ns > nc - n_chars
    THEN IF ~safe_mul(nc, 2)
         THEN [ok |-> FALSE, nc |-> nc]
         ELSE write_nc(nc * 2, n_chars, ns)
    ELSE [ok |-> TRUE, nc |-> nc]

\* The while loop of cbook_write() without the safe_mul test: nc *= 2 in size_t.
write_loop_nocheck(nc, n_chars, ns, k, fuel) ==
    LET F[c \in 0 .. SIZE_MAX, j \in 0 .. fuel] ==
            IF ns > (c - n_chars) % (SIZE_MAX + 1)
            THEN IF j = fuel
                 THEN [end |-> "running", nc |-> c, k |-> j]
                 ELSE F[(c * 2) % (SIZE_MAX + 1), j + 1]
            ELSE [end |-> "fits", nc |-> c, k |-> j]
    IN  F[nc, k]

\* The while loop of cbook_write(), its iterations counted: [end, nc, k] with k the number of
\* doublings made; end is "fits" when the loop condition became false, "overflow" when
\* safe_mul refused a doubling, and "running" when the loop is still going after fuel
\* doublings.  nc - n_chars is computed in size_t.
write_loop(nc, n_chars, ns, k, fuel) ==
    LET F[c \in 0 .. SIZE_MAX, j \in 0 .. fuel] ==
            IF ns > (c - n_chars) % (SIZE_MAX + 1)
            THEN IF ~safe_mul(c, 2)
                 THEN [end |-> "overflow", nc |-> c, k |-> j]
                 ELSE IF j = fuel
                 THEN [end |-> "running", nc |-> c, k |-> j]
                 ELSE F[c * 2, j + 1]
            ELSE [end |-> "fits", nc |-> c, k |-> j]
    IN  F[nc, k]

\* The memmove of cbook_write() copying strlen(str) bytes, without the terminator.
write_chars_noterm(chars, n_alloc, n_chars, str) ==
    [i \in 0 .. (n_alloc - 1) |->
        IF i < n_chars \/ i >= n_chars + Len(str) THEN chars[i] ELSE str[i - n_chars + 1]]

\* memmove(chars + n_chars, str, ns): the bytes of str and its terminator.
write_chars(chars, n_alloc, n_chars, str) ==
    [i \in 0 .. (n_alloc - 1) |->
        IF i < n_chars \/ i > n_chars + Len(str)
        THEN chars[i]
        ELSE IF i = n_chars + Len(str) THEN NUL ELSE str[i - n_chars + 1]]

\* The group opening of cbook_write() leaving new_group set.
open_group_keepflag(g) ==
    IF g.new_group
    THEN [g EXCEPT !.groups = Store(g.groups, g.n_groups, g.n_words), !.n_groups = g.n_groups + 1]
    ELSE g

\* if (book->new_group) { book->groups[book->n_groups++] = book->n_words; ... }
open_group(g) ==
    IF g.new_group
    THEN [g EXCEPT !.groups    = Store(g.groups, g.n_groups, g.n_words),
                   !.n_groups  = g.n_groups + 1,
                   !.new_group = FALSE]
    ELSE g

\* cbook_write() opening the group before it grows the arrays.
cbook_write_early(b, str, fail) ==
    IF b.err # CERR_NONE
    THEN b
    ELSE LET ns == Len(str) + 1
             nc == write_nc(b.n_alloc_chars, b.n_chars, ns)
             nw == (b.n_alloc_words  * (IF b.n_words  >= b.n_alloc_words  THEN 2 ELSE 1)) % (SIZE_MAX + 1)
             ng == (b.n_alloc_groups * (IF b.n_groups >= b.n_alloc_groups THEN 2 ELSE 1)) % (SIZE_MAX + 1)
             o  == open_group(b)
         IN
         IF ~nc.ok
         THEN [o EXCEPT !.err = CERR_OVERFLOW]
         ELSE IF ~cbook_grow(o, nc.nc, nw, ng, fail).ret
         THEN cbook_grow(o, nc.nc, nw, ng, fail).obj
         ELSE LET h == cbook_grow(o, nc.nc, nw, ng, fail).obj IN
              [h EXCEPT !.chars   = write_chars(h.chars, h.n_alloc_chars, h.n_chars, str),
                        !.words   = Store(h.words, h.n_words, h.n_chars),
                        !.n_words = h.n_words + 1,
                        !.n_chars = h.n_chars + ns]

cbook_write(b, str, fail) ==
    IF b.err # CERR_NONE
    THEN b
    ELSE LET ns == Len(str) + 1
             nc == write_nc(b.n_alloc_chars, b.n_chars, ns)
             nw == (b.n_alloc_words  * (IF b.n_words  >= b.n_alloc_words  THEN 2 ELSE 1)) % (SIZE_MAX + 1)
             ng == (b.n_alloc_groups * (IF b.n_groups >= b.n_alloc_groups THEN 2 ELSE 1)) % (SIZE_MAX + 1)
         IN
         IF ~nc.ok
         THEN [b EXCEPT !.err = CERR_OVERFLOW]
         ELSE IF ~cbook_grow(b, nc.nc, nw, ng, fail).ret
         THEN cbook_grow(b, nc.nc, nw, ng, fail).obj
         ELSE LET g == cbook_grow(b, nc.nc, nw, ng, fail).obj
                  h == open_group(g)
              IN
              [h EXCEPT !.chars   = write_chars(h.chars, h.n_alloc_chars, h.n_chars, str),
                        !.words   = Store(h.words, h.n_words, h.n_chars),
                        !.n_words = h.n_words + 1,
                        !.n_chars = h.n_chars + ns]

cbook_zero(b) ==
    IF b.err # CERR_NONE
    THEN b
    ELSE [b EXCEPT !.chars    = [i \in 0 .. (b.n_alloc_chars - 1) |-> NUL],
                   !.n_groups = 0,
                   !.n_words  = 0,
                   !.n_chars  = 0,
                   !.groups   = Empty,
                   !.words    = Empty]

-----------------------------------------------------------------------------
(* Arguments the callers pass *)

Ids == 0 .. MaxId

\* (x, y, ptr) of a cinputs_push; 40000 and -40000 do not fit an int16_t.
Payloads == {[x |-> 0, y |-> -7, ptr |-> NULL], [x |-> 40000, y |-> -40000, ptr |-> "p1"]}

\* Pointers pushed to a cref.
Ptrs == {NULL, "p1", "p2"}

\* Default pointers installed by set_default_ptr.
DefaultPtrs == {NULL, "d1"}

\* Indexes passed to pull_index and purge_index.
Indexes == 0 .. MaxSlots

\* Slot counts requested from a cinputs; the last one overflows the size limit.
InputsCounts == (0 .. MaxSlots) \cup {SIZE_MAX \div SizeofInputsSlot + 1}

\* Slot counts requested from a cref; the last one overflows the size limit.
RefCounts == (0 .. MaxSlots) \cup {SIZE_MAX \div SizeofRefSlot + 1}

\* Strings written to a cbook.
Strings == {<<>>, <<"a">>}

\* (bytes, words, groups) requested from cbook_prealloc; the last two overflow the size limit.
BookCounts ==
    {<<0, 0, 0>>, <<4, 2, 2>>,
     <<1, SIZE_MAX \div SizeofSizeT + 1, 1>>, <<1, 1, SIZE_MAX \div SizeofSizeT + 1>>}

\* The realloc of cbook's grow() that fails.
Fails == {"none", "chars", "words", "groups"}

-----------------------------------------------------------------------------
(* History *)

\* No clone was returned by the last call.
NoTwin == [handle |-> "none", obj |-> NULL, own |-> TRUE]

NoRun == [on |-> FALSE, p |-> NULL, k |-> 0, j |-> 0, n0 |-> 0, ok |-> FALSE]

\* The scenario after cref_push(p) took r to new.
RunPush(r, new, p) ==
    IF run.on /\ run.ok /\ run.p = p /\ run.j = 0
    THEN [run EXCEPT !.k = run.k + 1, !.ok = (new.err = CERR_NONE)]
    ELSE IF r.err = CERR_NONE /\ cref_find(r, p).ret = 0
    THEN [on |-> TRUE, p |-> p, k |-> 1, j |-> 0, n0 |-> r.n, ok |-> (new.err = CERR_NONE)]
    ELSE NoRun

\* The scenario after cref_pull_ptr(p).
RunPull(p) ==
    IF run.on /\ run.ok /\ run.p = p /\ run.j < run.k
    THEN [run EXCEPT !.j = run.j + 1]
    ELSE NoRun

NoLog == [ok |-> FALSE, strs |-> <<>>]

\* The log after a call that took the book b to new; str is the string a cbook_write wrote,
\* keeps says that the call is one that leaves the words alone.
LogAfter(b, new, op, str) ==
    IF new.err = CERR_NONE /\ new.n_words = 0
    THEN [ok |-> TRUE, strs |-> <<>>]
    ELSE IF log.ok /\ op = "cbook_write" /\ b.err = CERR_NONE /\ new.err = CERR_NONE
    THEN [ok |-> TRUE, strs |-> Append(log.strs, str)]
    ELSE IF log.ok /\ new.err = CERR_NONE
                   /\ op \in {"cbook_prepare_new_group", "cbook_undo_new_group", "cbook_prealloc"}
    THEN log
    ELSE NoLog

\* What the caller observes of the book's counters.
Counters(b) == <<cbook_length(b), cbook_words_number(b), cbook_groups_number(b)>>

NoTrail == [phase |-> "none", base |-> <<0, 0, 0>>, flag |-> FALSE, m |-> 0, j |-> 0]

\* The run after a call that took the book b to new: successful writes then pop_words, or a
\* prepare_new_group then an undo_new_group; base and flag are the counters and the new_group
\* flag of the book before the run.
TrailAfter(b, new, op) ==
    IF op = "cbook_write" /\ b.err = CERR_NONE /\ new.err = CERR_NONE
    THEN IF trail.phase = "write"
         THEN [trail EXCEPT !.m = trail.m + 1]
         ELSE [phase |-> "write", base |-> Counters(b), flag |-> b.new_group, m |-> 1, j |-> 0]
    ELSE IF op = "cbook_pop_word" /\ trail.phase \in {"write", "pop"} /\ trail.j < trail.m
    THEN [trail EXCEPT !.phase = "pop", !.j = trail.j + 1]
    ELSE IF op = "cbook_prepare_new_group" /\ b.err = CERR_NONE
    THEN [phase |-> "prepare", base |-> Counters(b), flag |-> b.new_group, m |-> 0, j |-> 0]
    ELSE IF op = "cbook_undo_new_group" /\ trail.phase = "prepare"
    THEN [trail EXCEPT !.phase = "undo"]
    ELSE NoTrail

-----------------------------------------------------------------------------
(* Actions: one public function applied to the instance under test *)

InputsCall(op, arg, new) ==
    /\ target = "cinputs"
    /\ handle # "freed"
    /\ call' = [op |-> op, arg |-> arg]
    /\ pre' = inputs
    /\ inputs' = new
    /\ twin' = NoTwin
    /\ UNCHANGED <<target, handle, ref, book, oob, run, log, trail>>

CinputsClear == InputsCall("cinputs_clear", <<>>, cinputs_clear(inputs))

CinputsPullId == \E id \in Ids : InputsCall("cinputs_pull_id", <<id>>, cinputs_pull_id(inputs, id))

CinputsPullIndex ==
    \E i \in Indexes : InputsCall("cinputs_pull_index", <<i>>, cinputs_pull_index(inputs, i))

CinputsPush ==
    \E id \in Ids, a \in Payloads :
        InputsCall("cinputs_push", <<id, a.x, a.y, a.ptr>>, cinputs_push(inputs, id, a.x, a.y, a.ptr))

CinputsRepair == InputsCall("cinputs_repair", <<>>, cinputs_repair(inputs))

CinputsResize ==
    \E n \in InputsCounts, realloc_ok \in BOOLEAN :
        InputsCall("cinputs_resize", <<n, realloc_ok>>, cinputs_resize(inputs, n, realloc_ok))

CinputsSetDefaultPtr ==
    \E p \in DefaultPtrs :
        InputsCall("cinputs_set_default_ptr", <<p>>, cinputs_set_default_ptr(inputs, p))

\* cinputs_destroy(): nothing on the placeholder, else the instance is freed.
CinputsDestroy ==
    /\ target = "cinputs"
    /\ handle # "freed"
    /\ call' = [op |-> "cinputs_destroy", arg |-> <<>>]
    /\ pre' = inputs
    /\ handle' = IF handle = "placeholder" THEN handle ELSE "freed"
    /\ twin' = NoTwin
    /\ UNCHANGED <<target, inputs, ref, book, oob, run, log, trail>>

RefCall(op, arg, new, newrun) ==
    /\ target = "cref"
    /\ handle # "freed"
    /\ call' = [op |-> op, arg |-> arg]
    /\ pre' = ref
    /\ ref' = new
    /\ run' = newrun
    /\ twin' = NoTwin
    /\ UNCHANGED <<target, handle, inputs, book, oob, log, trail>>

CrefClear == RefCall("cref_clear", <<>>, cref_clear(ref), NoRun)

CrefPrealloc ==
    \E n \in RefCounts, realloc_ok \in BOOLEAN :
        RefCall("cref_prealloc", <<n>>, cref_prealloc(ref, n, realloc_ok), NoRun)

CrefPullIndex ==
    \E i \in Indexes : RefCall("cref_pull_index", <<i>>, cref_pull_index(ref, i), NoRun)

CrefPullPtr ==
    \E p \in Ptrs : RefCall("cref_pull_ptr", <<p>>, cref_pull_ptr(ref, p), RunPull(p))

CrefPurgeIndex ==
    \E i \in Indexes : RefCall("cref_purge_index", <<i>>, cref_purge_index(ref, i), NoRun)

CrefPurgePtr ==
    \E p \in Ptrs : RefCall("cref_purge_ptr", <<p>>, cref_purge_ptr(ref, p), NoRun)

CrefPush ==
    \E p \in Ptrs, realloc_ok \in BOOLEAN :
        RefCall("cref_push", <<p>>, cref_push(ref, p, realloc_ok),
                RunPush(ref, cref_push(ref, p, realloc_ok), p))

CrefRepair == RefCall("cref_repair", <<>>, cref_repair(ref), NoRun)

CrefSetDefaultPtr ==
    \E p \in DefaultPtrs :
        RefCall("cref_set_default_ptr", <<p>>, cref_set_default_ptr(ref, p), NoRun)

\* cref_destroy(): nothing on the placeholder, else the instance is freed.
CrefDestroy ==
    /\ target = "cref"
    /\ handle # "freed"
    /\ call' = [op |-> "cref_destroy", arg |-> <<>>]
    /\ pre' = ref
    /\ run' = NoRun
    /\ handle' = IF handle = "placeholder" THEN handle ELSE "freed"
    /\ twin' = NoTwin
    /\ UNCHANGED <<target, inputs, ref, book, oob, log, trail>>

\* Once an array was indexed outside its allocation the behaviour is undefined: the model
\* records the outcome of that call and follows the instance no further.
BookCall(op, arg, new, str) ==
    /\ target = "cbook"
    /\ handle # "freed"
    /\ ~oob
    /\ call' = [op |-> op, arg |-> arg]
    /\ pre' = book
    /\ book' = new
    /\ log' = LogAfter(book, new, op, str)
    /\ trail' = TrailAfter(book, new, op)
    /\ twin' = NoTwin
    /\ UNCHANGED <<target, handle, inputs, ref, run>>

CbookClear == BookCall("cbook_clear", <<>>, cbook_clear(book), <<>>) /\ UNCHANGED oob

CbookPopGroup == BookCall("cbook_pop_group", <<>>, cbook_pop_group(book), <<>>) /\ UNCHANGED oob

CbookPopWord ==
    \E junk_eq \in BOOLEAN :
        /\ BookCall("cbook_pop_word", <<>>, cbook_pop_word(book, junk_eq), <<>>)
        /\ oob' = cbook_pop_word_oob(book)

CbookPrealloc ==
    \E n \in BookCounts, fail \in Fails :
        /\ BookCall("cbook_prealloc", n, cbook_prealloc(book, n[1], n[2], n[3], fail), <<>>)
        /\ UNCHANGED oob

CbookPrepareNewGroup ==
    BookCall("cbook_prepare_new_group", <<>>, cbook_prepare_new_group(book), <<>>) /\ UNCHANGED oob

CbookRepair == BookCall("cbook_repair", <<>>, cbook_repair(book), <<>>) /\ UNCHANGED oob

CbookUndoNewGroup ==
    BookCall("cbook_undo_new_group", <<>>, cbook_undo_new_group(book), <<>>) /\ UNCHANGED oob

CbookWrite ==
    \E str \in Strings, fail \in Fails :
        /\ book.n_words < MaxWords
        /\ BookCall("cbook_write", <<str>>, cbook_write(book, str, fail), str)
        /\ UNCHANGED oob

CbookZero == BookCall("cbook_zero", <<>>, cbook_zero(book), <<>>) /\ UNCHANGED oob

\* cbook_destroy(): nothing on the placeholder, else the instance is freed.
CbookDestroy ==
    /\ target = "cbook"
    /\ handle # "freed"
    /\ ~oob
    /\ call' = [op |-> "cbook_destroy", arg |-> <<>>]
    /\ pre' = book
    /\ log' = NoLog
    /\ trail' = NoTrail
    /\ handle' = IF handle = "placeholder" THEN handle ELSE "freed"
    /\ twin' = NoTwin
    /\ UNCHANGED <<target, inputs, ref, book, oob, run>>

\* cinputs_clone(), cref_clone(), cbook_clone(): the source is left alone and the caller gets
\* a second instance.  The argument recorded is whether every allocation would succeed.
CinputsClone ==
    \E calloc_ok \in BOOLEAN, realloc_ok \in BOOLEAN :
        /\ target = "cinputs"
        /\ handle # "freed"
        /\ call' = [op |-> "cinputs_clone", arg |-> <<calloc_ok /\ realloc_ok>>]
        /\ pre' = inputs
        /\ twin' = cinputs_clone(inputs, calloc_ok, realloc_ok)
        /\ UNCHANGED <<target, handle, inputs, ref, book, oob, run, log, trail>>

CrefClone ==
    \E calloc_ok \in BOOLEAN, realloc_ok \in BOOLEAN :
        /\ target = "cref"
        /\ handle # "freed"
        /\ call' = [op |-> "cref_clone", arg |-> <<calloc_ok /\ realloc_ok>>]
        /\ pre' = ref
        /\ twin' = cref_clone(ref, calloc_ok, realloc_ok)
        /\ run' = NoRun
        /\ UNCHANGED <<target, handle, inputs, ref, book, oob, log, trail>>

CbookClone ==
    \E calloc_ok \in BOOLEAN, fail \in Fails :
        /\ target = "cbook"
        /\ handle # "freed"
        /\ ~oob
        /\ call' = [op |-> "cbook_clone", arg |-> <<calloc_ok /\ fail = "none">>]
        /\ pre' = book
        /\ twin' = cbook_clone(book, calloc_ok, fail)
        /\ log' = NoLog
        /\ trail' = NoTrail
        /\ UNCHANGED <<target, handle, inputs, ref, book, oob, run>>

-----------------------------------------------------------------------------
(* The state after construction: one container is created, the other two are not *)

NoHistory == oob = FALSE /\ run = NoRun /\ trail = NoTrail /\ twin = NoTwin

InitInputs ==
    \E n \in InputsCounts, calloc_ok \in BOOLEAN, realloc_ok \in BOOLEAN :
        /\ target = "cinputs"
        /\ handle = cinputs_create(n, calloc_ok, realloc_ok).handle
        /\ inputs = cinputs_create(n, calloc_ok, realloc_ok).obj
        /\ ref = cref_placeholder_instance
        /\ book = cbook_placeholder_instance
        /\ call = [op |-> "cinputs_create", arg |-> <<n, calloc_ok /\ realloc_ok>>]
        /\ pre = inputs
        /\ log = NoLog
        /\ NoHistory

InitRef ==
    \E calloc_ok \in BOOLEAN, realloc_ok \in BOOLEAN :
        /\ target = "cref"
        /\ handle = cref_create(calloc_ok, realloc_ok).handle
        /\ inputs = cinputs_placeholder_instance
        /\ ref = cref_create(calloc_ok, realloc_ok).obj
        /\ book = cbook_placeholder_instance
        /\ call = [op |-> "cref_create", arg |-> <<calloc_ok /\ realloc_ok>>]
        /\ pre = ref
        /\ log = NoLog
        /\ NoHistory

InitBook ==
    \E calloc_ok \in BOOLEAN, fail \in Fails :
        /\ target = "cbook"
        /\ handle = cbook_create(calloc_ok, fail).handle
        /\ inputs = cinputs_placeholder_instance
        /\ ref = cref_placeholder_instance
        /\ book = cbook_create(calloc_ok, fail).obj
        /\ call = [op |-> "cbook_create", arg |-> <<calloc_ok /\ fail = "none">>]
        /\ pre = book
        /\ log = [ok |-> handle = "valid", strs |-> <<>>]
        /\ NoHistory

Init == InitInputs \/ InitRef \/ InitBook

NextInputs ==
    \/ CinputsClear \/ CinputsPullId \/ CinputsPullIndex \/ CinputsPush \/ CinputsRepair
    \/ CinputsResize \/ CinputsSetDefaultPtr \/ CinputsDestroy \/ CinputsClone

NextRef ==
    \/ CrefClear \/ CrefPrealloc \/ CrefPullIndex \/ CrefPullPtr \/ CrefPurgeIndex
    \/ CrefPurgePtr \/ CrefPush \/ CrefRepair \/ CrefSetDefaultPtr \/ CrefDestroy \/ CrefClone

NextBook ==
    \/ CbookClear \/ CbookPopGroup \/ CbookPopWord \/ CbookPrealloc \/ CbookPrepareNewGroup
    \/ CbookRepair \/ CbookUndoNewGroup \/ CbookWrite \/ CbookZero \/ CbookDestroy \/ CbookClone

Next == NextInputs \/ NextRef \/ NextBook

\* Any of the three containers.
Spec == Init /\ [][Next]_vars

\* A cinputs.
SpecInputs == InitInputs /\ [][NextInputs]_vars

\* A cref.
SpecRef == InitRef /\ [][NextRef]_vars

\* A cbook.
SpecBook == InitBook /\ [][NextBook]_vars

-----------------------------------------------------------------------------
(* Properties *)

\* The instance under test.
Obj == IF target = "cinputs" THEN inputs ELSE IF target = "cref" THEN ref ELSE book

\* The errors that repair clears.
Clearable == {CERR_PARAM, CERR_OVERFLOW, CERR_MEMORY}

MutatingOps ==
    {"cinputs_clear", "cinputs_pull_id", "cinputs_pull_index", "cinputs_push", "cinputs_resize",
     "cinputs_set_default_ptr",
     "cref_clear", "cref_prealloc", "cref_pull_index", "cref_pull_ptr", "cref_purge_index",
     "cref_purge_ptr", "cref_push", "cref_set_default_ptr",
     "cbook_clear", "cbook_pop_group", "cbook_pop_word", "cbook_prealloc",
     "cbook_prepare_new_group", "cbook_undo_new_group", "cbook_write", "cbook_zero"}

RepairOps == {"cinputs_repair", "cref_repair", "cbook_repair"}

\* C1.  Error stickiness: a mutating call on an instance whose error is PARAM, OVERFLOW or
\* MEMORY leaves every field of the instance (lengths, capacities, entries, default pointer,
\* new_group flag, error) as it was before the call.
C1_ErrorSticky ==
    (call.op \in MutatingOps /\ pre.err \in Clearable) => (Obj = pre /\ handle = "valid")

\* C1 witness: a cbook_write, then a cbook_zero, were called on a book in error MEMORY.
C1_Witness ==
    /\ target = "cbook"
    /\ call.op = "cbook_zero"
    /\ pre.err = CERR_MEMORY
    /\ pre.n_words > 0

\* C2.  The error goes from PARAM, OVERFLOW or MEMORY to NONE only through repair; an
\* instance in error INVALID stays so after every call, repair included; repair changes no
\* field but the error.
C2_RepairOnly ==
    /\ (pre.err \in Clearable /\ Obj.err = CERR_NONE) => call.op \in RepairOps
    /\ pre.err = CERR_INVALID => Obj.err = CERR_INVALID
    /\ call.op \in RepairOps =>
          /\ [Obj EXCEPT !.err = pre.err] = pre
          /\ Obj.err = (IF pre.err = CERR_INVALID THEN CERR_INVALID ELSE CERR_NONE)

\* C2 witness: repair cleared a MEMORY error of a book that holds words.
C2_Witness ==
    /\ target = "cbook"
    /\ call.op = "cbook_repair"
    /\ pre.err = CERR_MEMORY
    /\ book.err = CERR_NONE
    /\ book.n_words > 0

\* C3.  The placeholder instance keeps error INVALID, length 0, capacity 0 and a NULL default
\* pointer, and no call on it has a side effect.
C3_PlaceholderImmutable ==
    handle = "placeholder" =>
        /\ Obj.err = CERR_INVALID
        /\ Obj = pre
        /\ target = "cinputs" => inputs = cinputs_placeholder_instance
        /\ target = "cref" => ref = cref_placeholder_instance
        /\ target = "cbook" => book = cbook_placeholder_instance
        /\ target \in {"cinputs", "cref"} =>
              Obj.n = 0 /\ Obj.n_alloc = 0 /\ Obj.default_ptr = NULL
        /\ target = "cbook" =>
              /\ book.n_chars = 0 /\ book.n_words = 0 /\ book.n_groups = 0
              /\ book.n_alloc_chars = 0 /\ book.n_alloc_words = 0 /\ book.n_alloc_groups = 0

\* C3 witness: repair was called on the cref placeholder.
C3_Witness ==
    /\ target = "cref"
    /\ handle = "placeholder"
    /\ call.op = "cref_repair"

\* C4.  Slot Table uniqueness: no two live entries share an id, and a push of an id that is
\* present does not increase the length.
C4_UniqueIds ==
    target = "cinputs" =>
        /\ \A i, j \in 0 .. (inputs.n - 1) : inputs.slots[i].id = inputs.slots[j].id => i = j
        /\ \A id \in Ids : Cardinality({i \in 0 .. (inputs.n - 1) : inputs.slots[i].id = id}) <= 1
        /\ (call.op = "cinputs_push" /\ cinputs_find(pre, call.arg[1]).ret) =>
              cinputs_load(inputs) <= cinputs_load(pre)

\* C4 witness: an id held by the first of two entries was pushed again.
C4_Witness ==
    /\ target = "cinputs"
    /\ call.op = "cinputs_push"
    /\ pre.n = 2
    /\ cinputs_find(pre, call.arg[1]).ret
    /\ cinputs_find(pre, call.arg[1]).index = 0
    /\ inputs.n = 2

\* C5.  Slot Table capacity ceiling: a push of an absent id to a full table leaves the length,
\* the entries, the capacity and the error as they were, and the id is not found afterwards.
C5_CapacityCeiling ==
    (/\ target = "cinputs"
     /\ call.op = "cinputs_push"
     /\ pre.n = pre.n_alloc
     /\ \A i \in 0 .. (pre.n - 1) : pre.slots[i].id # call.arg[1])
    =>
    /\ inputs.n = pre.n
    /\ inputs.slots = pre.slots
    /\ inputs.n_alloc = pre.n_alloc
    /\ inputs.err = pre.err
    /\ inputs = pre
    /\ ~cinputs_find(inputs, call.arg[1]).ret

\* C5 witness: an absent id was pushed to a valid, error-free, full table.
C5_Witness ==
    /\ target = "cinputs"
    /\ handle = "valid"
    /\ call.op = "cinputs_push"
    /\ pre.err = CERR_NONE
    /\ pre.n = pre.n_alloc
    /\ pre.n >= 2
    /\ \A i \in 0 .. (pre.n - 1) : pre.slots[i].id # call.arg[1]

Removed(r, new, i) ==
    /\ new.n = r.n - 1
    /\ \A j \in 0 .. (new.n - 1) : new.slots[j] = r.slots[IF j < i THEN j ELSE j + 1]

\* C7.  Purge override: purge_ptr of a pointer that is found, and purge_index of an index
\* below the length, remove the entry whatever its count; the pointer is not found
\* afterwards, the length is one less, the other entries keep their fields and order.
C7_PurgeOverride ==
    /\ (target = "cref" /\ call.op = "cref_purge_ptr" /\ cref_find(pre, call.arg[1]).ret > 0) =>
          /\ Removed(pre, ref, cref_find(pre, call.arg[1]).index)
          /\ cref_find(ref, call.arg[1]).ret = 0
          /\ cref_length(ref) = cref_length(pre) - 1
    /\ (target = "cref" /\ call.op = "cref_purge_index" /\ call.arg[1] < cref_length(pre)) =>
          /\ Removed(pre, ref, call.arg[1])
          /\ cref_find(ref, pre.slots[call.arg[1]].ptr).ret = 0
          /\ cref_length(ref) = cref_length(pre) - 1

\* C7 witness: purge_ptr removed the first of three entries while its count was above 1.
C7_Witness ==
    /\ target = "cref"
    /\ call.op = "cref_purge_ptr"
    /\ pre.n = 3
    /\ cref_find(pre, call.arg[1]).ret > 1
    /\ cref_find(pre, call.arg[1]).index = 0
    /\ ref.n = 2

\* The index of the entry a pull designates, or -1.
PulledIndex ==
    IF call.op = "cref_pull_index" /\ call.arg[1] < cref_length(pre)
    THEN call.arg[1]
    ELSE IF call.op = "cref_pull_ptr" /\ cref_find(pre, call.arg[1]).ret > 0
    THEN cref_find(pre, call.arg[1]).index
    ELSE -1

\* C8.  Reference Registry invariant: a pointer is held by at most one live entry, every live
\* entry has a count of at least 1, and a pull removes the entry exactly when it brings the
\* count to 0 (else the entry stays, its count one less).
C8_RefInvariant ==
    target = "cref" =>
        /\ \A i, j \in 0 .. (ref.n - 1) : ref.slots[i].ptr = ref.slots[j].ptr => i = j
        /\ \A i \in 0 .. (ref.n - 1) : ref.slots[i].n_ref >= 1
        /\ PulledIndex >= 0 =>
              IF pre.slots[PulledIndex].n_ref = 1
              THEN Removed(pre, ref, PulledIndex)
              ELSE ref = [pre EXCEPT !.slots[PulledIndex].n_ref = pre.slots[PulledIndex].n_ref - 1]

\* C8 witness: a pull brought the count of the first of two entries from 1 to 0.
C8_Witness ==
    /\ target = "cref"
    /\ call.op = "cref_pull_ptr"
    /\ pre.n = 2
    /\ PulledIndex = 0
    /\ pre.slots[0].n_ref = 1
    /\ pre.slots[1].n_ref > 1
    /\ ref.n = 1

RECURSIVE Bytes(_)
\* The bytes the strings of a sequence take, terminators included.
Bytes(strs) == IF strs = <<>> THEN 0 ELSE Len(Head(strs)) + 1 + Bytes(Tail(strs))

\* C9.  String Arena round trip: after the strings s0..sk-1 were written to an empty book,
\* every write succeeding, word(i) is si, words_number is k and length is the sum of
\* strlen(si) + 1.
C9_RoundTrip ==
    (target = "cbook" /\ log.ok) =>
        /\ cbook_words_number(book) = Len(log.strs)
        /\ \A i \in 1 .. Len(log.strs) : cbook_word(book, i - 1) = log.strs[i]
        /\ cbook_length(book) = Bytes(log.strs)

\* C9 witness: two different strings were written, one after the other.
C9_Witness ==
    /\ target = "cbook"
    /\ log.ok
    /\ Len(log.strs) = 2
    /\ log.strs[1] # log.strs[2]
    /\ call.op = "cbook_write"

\* C10.  String Arena stack law: m successful writes followed by m pop_word calls return
\* length, words_number and groups_number to their values before the writes.
C10_StackLaw ==
    (target = "cbook" /\ trail.phase = "pop" /\ trail.j = trail.m) =>
        Counters(book) = trail.base

\* C11.  pop_word undoes a write, pending-group flag included: after one successful write made
\* with new_group set on a book that holds a group, then one pop_word, the counters are what
\* they were and new_group is set again, so that the next write opens a group.
C11_PopWordRestoresFlag ==
    (/\ target = "cbook"
     /\ trail.phase = "pop" /\ trail.m = 1 /\ trail.j = 1
     /\ trail.flag /\ trail.base[3] >= 1)
    =>
    /\ Counters(book) = trail.base
    /\ book.new_group
    /\ cbook_groups_number(cbook_write(book, <<>>, "none")) = trail.base[3] + 1

\* C12.  Group boundary: a successful write adds a group exactly when new_group is set at the
\* time of the write, records the boundary at the word count of that time and clears the flag;
\* prepare_new_group sets the flag and nothing else; so the successful writes that follow one
\* another from a state where the flag is set add one group, which holds all their words.
C12_GroupBoundary ==
    target = "cbook" =>
        /\ (call.op = "cbook_write" /\ pre.err = CERR_NONE /\ book.err = CERR_NONE) =>
              /\ cbook_groups_number(book)
                    = cbook_groups_number(pre) + (IF pre.new_group THEN 1 ELSE 0)
              /\ pre.new_group => book.groups[pre.n_groups] = pre.n_words
              /\ ~book.new_group
        /\ (call.op = "cbook_prepare_new_group" /\ pre.err = CERR_NONE) =>
              /\ book.new_group
              /\ [book EXCEPT !.new_group = pre.new_group] = pre
        /\ (trail.phase = "write" /\ trail.flag) =>
              /\ cbook_groups_number(book) = trail.base[3] + 1
              /\ cbook_group_length(book, trail.base[3]) = trail.m
              /\ \A k \in 0 .. (trail.m - 1) :
                    cbook_word_index(book, trail.base[3], k) = trail.base[2] + k

\* C12 witness: two writes followed one another from a state with the flag set and made
\* one group of two words.
C12_Witness ==
    /\ target = "cbook"
    /\ call.op = "cbook_write"
    /\ trail.phase = "write"
    /\ trail.flag
    /\ trail.m = 2
    /\ cbook_group_length(book, cbook_groups_number(book) - 1) = 2

\* C13.  Overflow rejection: cinputs_resize, cref_prealloc and cbook_prealloc called on an
\* error-free instance with an element count whose byte size (count times element size) is
\* above SIZE_MAX set error OVERFLOW and change no other field.
C13_OverflowRejection ==
    /\ (/\ target = "cinputs" /\ call.op = "cinputs_resize" /\ pre.err = CERR_NONE
        /\ call.arg[1] * SizeofInputsSlot > SIZE_MAX)
       => inputs = [pre EXCEPT !.err = CERR_OVERFLOW]
    /\ (/\ target = "cref" /\ call.op = "cref_prealloc" /\ pre.err = CERR_NONE
        /\ call.arg[1] * SizeofRefSlot > SIZE_MAX)
       => ref = [pre EXCEPT !.err = CERR_OVERFLOW]
    /\ (/\ target = "cbook" /\ call.op = "cbook_prealloc" /\ pre.err = CERR_NONE
        /\ \/ call.arg[2] * SizeofSizeT > SIZE_MAX
           \/ call.arg[3] * SizeofSizeT > SIZE_MAX)
       => book = [pre EXCEPT !.err = CERR_OVERFLOW]

\* C13 witness: cinputs_resize was refused a count too large on a table that holds entries.
C13_Witness ==
    /\ target = "cinputs"
    /\ call.op = "cinputs_resize"
    /\ call.arg[1] * SizeofInputsSlot > SIZE_MAX
    /\ pre.err = CERR_NONE
    /\ pre.n >= 1
    /\ inputs.err = CERR_OVERFLOW

\* C14.  cbook_zero is cbook_clear plus zeroing: called on an error-free book it leaves what
\* cbook_clear would leave (counters 0, capacities unchanged, new_group set, so that the next
\* write opens group 0), and every byte of the allocated buffer is 0.
C14_ZeroIsClear ==
    (target = "cbook" /\ call.op = "cbook_zero" /\ pre.err = CERR_NONE) =>
        /\ [book EXCEPT !.chars = pre.chars] = cbook_clear(pre)
        /\ book.new_group
        /\ \A i \in 0 .. (book.n_alloc_chars - 1) : book.chars[i] = NUL
        /\ cbook_groups_number(cbook_write(book, <<>>, "none")) = 1

\* C15 as stated.  undo_new_group clears the new_group flag while groups_number is 0, and is
\* a no-op once a group exists and a write cleared the flag.
C15_UndoWhileNoGroup ==
    (target = "cbook" /\ call.op = "cbook_undo_new_group" /\ pre.err = CERR_NONE) =>
        /\ cbook_groups_number(pre) = 0 => ~book.new_group
        /\ (cbook_groups_number(pre) >= 1 /\ ~pre.new_group) => book = pre

\* C15, amended.  undo_new_group clears the new_group flag when at least one group exists and
\* changes no other field; while groups_number is 0 it changes nothing, a set flag stays set.
C15_UndoNeedsGroup ==
    (target = "cbook" /\ call.op = "cbook_undo_new_group" /\ pre.err = CERR_NONE) =>
        /\ cbook_groups_number(pre) = 0 => book = pre
        /\ cbook_groups_number(pre) >= 1 => book = [pre EXCEPT !.new_group = FALSE]
        /\ (cbook_groups_number(pre) >= 1 /\ ~pre.new_group) => book = pre

\* C15 witness: undo_new_group cleared a pending flag on a book that holds a group.
C15_Witness ==
    /\ target = "cbook"
    /\ call.op = "cbook_undo_new_group"
    /\ pre.err = CERR_NONE
    /\ pre.new_group
    /\ cbook_groups_number(pre) >= 1
    /\ ~book.new_group

\* C16.  undo_new_group reverts prepare_new_group: from an error-free book whose new_group
\* flag is clear, prepare_new_group then undo_new_group leave the flag clear and the counters
\* as they were, so that the next write adds no group.
C16_UndoRevertsPrepare ==
    (target = "cbook" /\ trail.phase = "undo" /\ ~trail.flag) =>
        /\ ~book.new_group
        /\ Counters(book) = trail.base
        /\ cbook_groups_number(cbook_write(book, <<>>, "none")) = trail.base[3]

\* C17.  Positional accessors: with the index at or above the length, or with an error set,
\* cinputs id/x/y return 0, cinputs ptr and cref ptr return the default pointer (the one the
\* last effective set_default_ptr installed, NULL if none did) and cref count returns 0; under
\* error find reports nothing and load/length return 0; otherwise the accessors return the
\* fields of the entry at the index.
C17_AccessorDefaults ==
    /\ target = "cinputs" =>
          /\ \A i \in 0 .. (inputs.n + 1) :
                LET bad == inputs.err # CERR_NONE \/ i >= inputs.n IN
                /\ cinputs_id(inputs, i)  = (IF bad THEN 0 ELSE inputs.slots[i].id)
                /\ cinputs_x(inputs, i)   = (IF bad THEN 0 ELSE inputs.slots[i].x)
                /\ cinputs_y(inputs, i)   = (IF bad THEN 0 ELSE inputs.slots[i].y)
                /\ cinputs_ptr(inputs, i) = (IF bad THEN inputs.default_ptr ELSE inputs.slots[i].ptr)
          /\ cinputs_load(inputs) = (IF inputs.err # CERR_NONE THEN 0 ELSE inputs.n)
          /\ inputs.err # CERR_NONE => \A id \in Ids : ~cinputs_find(inputs, id).ret
          /\ inputs.default_ptr =
                (IF call.op = "cinputs_create" THEN NULL
                 ELSE IF call.op = "cinputs_set_default_ptr" /\ pre.err = CERR_NONE THEN call.arg[1]
                 ELSE pre.default_ptr)
    /\ target = "cref" =>
          /\ \A i \in 0 .. (ref.n + 1) :
                LET bad == ref.err # CERR_NONE \/ i >= ref.n IN
                /\ cref_count(ref, i) = (IF bad THEN 0 ELSE ref.slots[i].n_ref)
                /\ cref_ptr(ref, i)   = (IF bad THEN ref.default_ptr ELSE ref.slots[i].ptr)
          /\ cref_length(ref) = (IF ref.err # CERR_NONE THEN 0 ELSE ref.n)
          /\ ref.err # CERR_NONE => \A p \in Ptrs : cref_find(ref, p).ret = 0
          /\ ref.default_ptr =
                (IF call.op = "cref_create" THEN NULL
                 ELSE IF call.op = "cref_set_default_ptr" /\ pre.err = CERR_NONE THEN call.arg[1]
                 ELSE pre.default_ptr)

\* C17 witness: a table in error holds an entry whose pointer is not the installed default.
C17_Witness ==
    /\ target = "cinputs"
    /\ inputs.err = CERR_MEMORY
    /\ inputs.n >= 1
    /\ inputs.default_ptr = "d1"
    /\ inputs.slots[0].ptr = "p1"
    /\ inputs.slots[0].id # 0
    /\ call.op = "cinputs_set_default_ptr"

CreateOps == {"cinputs_create", "cref_create", "cbook_create"}

CloneOps == {"cinputs_clone", "cref_clone", "cbook_clone"}

\* The placeholder of the container under test.
Placeholder ==
    IF target = "cinputs" THEN cinputs_placeholder_instance
    ELSE IF target = "cref" THEN cref_placeholder_instance
    ELSE cbook_placeholder_instance

\* C18.  Construction: create and clone return a valid instance whose error is NONE, or the
\* placeholder (error INVALID); the placeholder exactly when an allocation fails, when
\* cinputs_create is asked for 0 slots (or for more than the size limit holds), and when the
\* source of a clone has an error set; a clone leaves its source as it was.
C18_Construction ==
    /\ call.op \in CreateOps =>
          /\ handle \in {"valid", "placeholder"}
          /\ handle = "valid" => Obj.err = CERR_NONE
          /\ handle = "placeholder" => (Obj = Placeholder /\ Obj.err = CERR_INVALID)
          /\ target = "cinputs" =>
                (handle = "placeholder" <=>
                    \/ ~call.arg[2]
                    \/ call.arg[1] = 0
                    \/ call.arg[1] * SizeofInputsSlot > SIZE_MAX)
          /\ target # "cinputs" => (handle = "placeholder" <=> ~call.arg[1])
    /\ call.op \in CloneOps =>
          /\ twin.handle \in {"valid", "placeholder"}
          /\ twin.handle = "valid" => twin.obj.err = CERR_NONE
          /\ twin.handle = "placeholder" => (twin.obj = Placeholder /\ twin.obj.err = CERR_INVALID)
          /\ twin.handle = "placeholder" <=> (~call.arg[1] \/ pre.err # CERR_NONE)
          /\ Obj = pre
    /\ call.op \notin CloneOps => twin = NoTwin

\* C18 witness: the clone of a cref that holds entries and has error OVERFLOW, every
\* allocation succeeding, is the placeholder.
C18_Witness ==
    /\ target = "cref"
    /\ call.op = "cref_clone"
    /\ call.arg[1]
    /\ pre.err = CERR_OVERFLOW
    /\ pre.n >= 1
    /\ twin.handle = "placeholder"

C20_CapacityBookkeeping ==
    /\ inputs.n <= inputs.n_alloc
    /\ ref.n <= ref.n_alloc
    /\ book.n_chars <= book.n_alloc_chars
    /\ book.n_words <= book.n_alloc_words
    /\ book.n_groups <= book.n_alloc_groups
    /\ (handle = "valid" /\ target \in {"cinputs", "cref"}) => Obj.n_alloc >= 1
    /\ (handle = "valid" /\ target = "cbook") =>
          book.n_alloc_chars >= 1 /\ book.n_alloc_words >= 1 /\ book.n_alloc_groups >= 1
    /\ (target = "cref" /\ call.op # "cref_create") => ref.n_alloc >= pre.n_alloc
    /\ (target = "cbook" /\ call.op # "cbook_create") =>
          /\ book.n_alloc_chars >= pre.n_alloc_chars
          /\ book.n_alloc_words >= pre.n_alloc_words
          /\ book.n_alloc_groups >= pre.n_alloc_groups
    /\ (target = "cinputs" /\ call.op # "cinputs_create" /\ inputs.n_alloc < pre.n_alloc) =>
          (call.op = "cinputs_resize" /\ call.arg[1] = inputs.n_alloc)

\* C21.  String Arena offset invariant: in an error-free book the word offsets
\* words[0 .. n_words) are strictly increasing and each below n_chars, the group offsets
\* groups[0 .. n_groups) are strictly increasing, and groups[n_groups - 1] <= n_words.
C21_OffsetInvariant ==
    (target = "cbook" /\ book.err = CERR_NONE) =>
        /\ \A i \in 0 .. (book.n_words - 1) : i \in DOMAIN book.words
        /\ \A i \in 0 .. (book.n_groups - 1) : i \in DOMAIN book.groups
        /\ \A i \in 0 .. (book.n_words - 1) : book.words[i] < book.n_chars
        /\ \A i \in 0 .. (book.n_words - 2) : book.words[i] < book.words[i + 1]
        /\ \A i \in 0 .. (book.n_groups - 2) : book.groups[i] < book.groups[i + 1]
        /\ book.n_groups >= 1 => book.groups[book.n_groups - 1] <= book.n_words

\* Whether the push recorded in call, made on the error-free table pre, left in the table
\* what an upsert that re-appends the entry [id, x, y, ptr] leaves.
Upserted(x, y) ==
    LET id   == call.arg[1]
        ptr  == call.arg[4]
        f    == cinputs_find(pre, id)
        last == [id |-> id, x |-> x, y |-> y, ptr |-> ptr]
    IN  /\ f.ret =>
              /\ cinputs_load(inputs) = cinputs_load(pre)
              /\ inputs.slots[inputs.n - 1] = last
              /\ cinputs_find(inputs, id).ret
              /\ cinputs_find(inputs, id).index = cinputs_load(pre) - 1
              /\ \A j \in 0 .. (pre.n - 2) :
                    inputs.slots[j] = pre.slots[IF j < f.index THEN j ELSE j + 1]
        /\ (~f.ret /\ pre.n < pre.n_alloc) =>
              /\ cinputs_load(inputs) = cinputs_load(pre) + 1
              /\ inputs.slots[pre.n] = last
              /\ cinputs_find(inputs, id).ret
              /\ cinputs_find(inputs, id).index = cinputs_load(pre)
              /\ \A j \in 0 .. (pre.n - 1) : inputs.slots[j] = pre.slots[j]
        /\ inputs.n_alloc = pre.n_alloc
        /\ inputs.default_ptr = pre.default_ptr
        /\ inputs.err = CERR_NONE

\* C22 as stated.  cinputs_push is an upsert that re-appends: a push of an id that is present,
\* the table full or not, leaves the length as it was and the entry with the new x, y and ptr
\* at the last index, the other entries keeping their order; a push of an absent id with free
\* capacity appends the entry at index length and adds 1 to the length.
C22_UpsertOfArguments ==
    (target = "cinputs" /\ call.op = "cinputs_push" /\ pre.err = CERR_NONE) =>
        Upserted(call.arg[2], call.arg[3])

\* C22, amended.  The same, the entry holding ptr and the x and y arguments converted to
\* int16_t (the arguments themselves when they lie in -32768 .. 32767).
C22_Upsert ==
    (target = "cinputs" /\ call.op = "cinputs_push" /\ pre.err = CERR_NONE) =>
        /\ Upserted(ToInt16(call.arg[2]), ToInt16(call.arg[3]))
        /\ (call.arg[2] \in -32768 .. 32767 /\ call.arg[3] \in -32768 .. 32767) =>
              Upserted(call.arg[2], call.arg[3])

\* C22 witness: the id of the first of two entries of a full table was pushed with an x that
\* does not fit an int16_t, and its entry is now the last.
C22_Witness ==
    /\ target = "cinputs"
    /\ call.op = "cinputs_push"
    /\ pre.err = CERR_NONE
    /\ pre.n = 2
    /\ pre.n_alloc = 2
    /\ cinputs_find(pre, call.arg[1]).ret
    /\ cinputs_find(pre, call.arg[1]).index = 0
    /\ call.arg[2] = 40000
    /\ cinputs_id(inputs, 1) = call.arg[1]
    /\ cinputs_x(inputs, 1) = 40000 - 65536
    /\ cinputs_id(inputs, 0) = cinputs_id(pre, 1)

\* C23.  cinputs pull_index(i) with i below the length removes entry i and no other, takes 1
\* from the length and moves the entries after i down by one, the survivors keeping their
\* order and fields; pull_index with i at or above the length and pull_id of an absent id
\* change nothing (pull_id of an id that is present removes its entry the same way); the
\* capacity is unchanged in all cases.
C23_PullShifts ==
    (target = "cinputs" /\ call.op \in {"cinputs_pull_index", "cinputs_pull_id"}) =>
        /\ inputs.n_alloc = pre.n_alloc
        /\ (call.op = "cinputs_pull_index" /\ call.arg[1] < cinputs_load(pre)) =>
              /\ cinputs_load(inputs) = cinputs_load(pre) - 1
              /\ Removed(pre, inputs, call.arg[1])
              /\ [inputs EXCEPT !.n = pre.n, !.slots = pre.slots] = pre
        /\ (call.op = "cinputs_pull_index" /\ call.arg[1] >= cinputs_load(pre)) => inputs = pre
        /\ (call.op = "cinputs_pull_id" /\ ~cinputs_find(pre, call.arg[1]).ret) => inputs = pre
        /\ (call.op = "cinputs_pull_id" /\ cinputs_find(pre, call.arg[1]).ret) =>
              /\ cinputs_load(inputs) = cinputs_load(pre) - 1
              /\ Removed(pre, inputs, cinputs_find(pre, call.arg[1]).index)
              /\ ~cinputs_find(inputs, call.arg[1]).ret
              /\ [inputs EXCEPT !.n = pre.n, !.slots = pre.slots] = pre

\* C23 witness: pull_index(0) on a table of two different entries left the second at index 0.
C23_Witness ==
    /\ target = "cinputs"
    /\ call.op = "cinputs_pull_index"
    /\ call.arg[1] = 0
    /\ pre.err = CERR_NONE
    /\ pre.n = 2
    /\ pre.slots[0].ptr # pre.slots[1].ptr
    /\ inputs.n = 1
    /\ cinputs_id(inputs, 0) = cinputs_id(pre, 1)
    /\ cinputs_ptr(inputs, 0) = cinputs_ptr(pre, 1)

\* C24.  cinputs_resize(m) with m > 0, the allocation made and succeeding, on an error-free
\* table sets the capacity to m and the length to min(old length, m), the first
\* min(old length, m) entries staying as they were and in order; cinputs_resize(0) on a valid
\* error-free table sets error PARAM and leaves capacity, length and entries as they were.
C24_Resize ==
    (target = "cinputs" /\ call.op = "cinputs_resize" /\ handle = "valid" /\ pre.err = CERR_NONE) =>
        /\ (call.arg[1] > 0 /\ call.arg[1] * SizeofInputsSlot <= SIZE_MAX /\ call.arg[2]) =>
              /\ inputs.n_alloc = call.arg[1]
              /\ cinputs_load(inputs) = Min(cinputs_load(pre), call.arg[1])
              /\ \A i \in 0 .. (Min(pre.n, call.arg[1]) - 1) : inputs.slots[i] = pre.slots[i]
              /\ inputs.err = CERR_NONE
              /\ inputs.default_ptr = pre.default_ptr
        /\ call.arg[1] = 0 => inputs = [pre EXCEPT !.err = CERR_PARAM]

\* C24 witness: a table of two entries was resized to one slot and keeps its first entry.
C24_Witness ==
    /\ target = "cinputs"
    /\ call.op = "cinputs_resize"
    /\ call.arg = <<1, TRUE>>
    /\ pre.err = CERR_NONE
    /\ pre.n = 2
    /\ inputs.n = 1
    /\ inputs.n_alloc = 1
    /\ cinputs_id(inputs, 0) = cinputs_id(pre, 0)

\* C25.  cref_push of a pointer that is not present, when no failure occurs (the call sets no
\* error), inserts it as a new last entry with count 1: the capacity is doubled first if the
\* length equals the capacity and is unchanged otherwise; the entries that were there keep
\* their pointers, counts and order.  The push is never dropped silently: the pointer is
\* inserted or an error is set.
C25_PushInserts ==
    (/\ target = "cref" /\ call.op = "cref_push"
     /\ pre.err = CERR_NONE /\ cref_find(pre, call.arg[1]).ret = 0)
    =>
    /\ ref.err = CERR_NONE =>
          /\ cref_length(ref) = cref_length(pre) + 1
          /\ ref.slots[pre.n] = [ptr |-> call.arg[1], n_ref |-> 1]
          /\ cref_find(ref, call.arg[1]).ret = 1
          /\ cref_find(ref, call.arg[1]).index = cref_length(pre)
          /\ ref.n_alloc = (IF pre.n = pre.n_alloc THEN 2 * pre.n_alloc ELSE pre.n_alloc)
          /\ \A i \in 0 .. (pre.n - 1) : ref.slots[i] = pre.slots[i]
          /\ ref.default_ptr = pre.default_ptr
    /\ ref.err # CERR_NONE => ref = [pre EXCEPT !.err = ref.err]
    /\ ref.n = pre.n => ref.err \in {CERR_OVERFLOW, CERR_MEMORY}

\* C25 witness: a third pointer was pushed to a cref whose two slots were taken; the capacity
\* went from 2 to 4.
C25_Witness ==
    /\ target = "cref"
    /\ call.op = "cref_push"
    /\ pre.err = CERR_NONE
    /\ pre.n = 2
    /\ pre.n_alloc = 2
    /\ ref.n = 3
    /\ ref.n_alloc = 4
    /\ cref_ptr(ref, 2) = call.arg[1]
    /\ cref_count(ref, 2) = 1

\* C26.  Count saturation: cref_push(p) when the count of p is the largest unsigned value
\* sets error OVERFLOW and leaves the count at that value (it does not wrap to 0) and every
\* other field as it was; after repair, find(p) still reports that value.
C26_CountSaturation ==
    (/\ target = "cref" /\ call.op = "cref_push"
     /\ pre.err = CERR_NONE /\ cref_find(pre, call.arg[1]).ret = UINT_MAX)
    =>
    /\ ref.err = CERR_OVERFLOW
    /\ ref = [pre EXCEPT !.err = CERR_OVERFLOW]
    /\ ref.slots[cref_find(pre, call.arg[1]).index].n_ref = UINT_MAX
    /\ cref_repair(ref) = pre
    /\ cref_find(cref_repair(ref), call.arg[1]).ret = UINT_MAX

\* C26 witness: a pointer whose count is UINT_MAX, held with another pointer, was pushed.
C26_Witness ==
    /\ target = "cref"
    /\ call.op = "cref_push"
    /\ pre.err = CERR_NONE
    /\ pre.n = 2
    /\ cref_find(pre, call.arg[1]).ret = UINT_MAX
    /\ ref.err = CERR_OVERFLOW

Max(a, b) == IF a > b THEN a ELSE b

\* The capacities of a book.
Capacities(b) == <<b.n_alloc_chars, b.n_alloc_words, b.n_alloc_groups>>

\* Whether the prealloc recorded in call left everything but the capacities and the error
\* as it was: lengths, entries or words, group offsets, default pointer, new_group flag and
\* the bytes that were allocated.
PreallocFrame ==
    /\ target = "cref" => [ref EXCEPT !.n_alloc = pre.n_alloc, !.err = pre.err] = pre
    /\ target = "cbook" =>
          /\ [book EXCEPT !.n_alloc_chars = pre.n_alloc_chars, !.n_alloc_words = pre.n_alloc_words,
                          !.n_alloc_groups = pre.n_alloc_groups, !.chars = pre.chars,
                          !.err = pre.err] = pre
          /\ \A i \in 0 .. (pre.n_alloc_chars - 1) : book.chars[i] = pre.chars[i]
          /\ \A i \in 0 .. (pre.n_words - 1) : cbook_word([book EXCEPT !.err = pre.err], i) = cbook_word(pre, i)

\* Whether every capacity is now the larger of what it was and what the prealloc asked for.
PreallocMax ==
    /\ target = "cref" => ref.n_alloc = Max(pre.n_alloc, call.arg[1])
    /\ target = "cbook" =>
          \A k \in 1 .. 3 : Capacities(book)[k] = Max(Capacities(pre)[k], call.arg[k])

GroupPopped ==
    LET g == cbook_groups_number(pre) - 1 IN
    /\ cbook_groups_number(book) = g
    /\ cbook_words_number(book) = pre.groups[g]
    /\ cbook_length(book) = pre.words[pre.groups[g]]
    /\ \A i \in 0 .. (book.n_words - 1) : cbook_word(book, i) = cbook_word(pre, i)
    /\ \A k \in 0 .. (g - 1) :
          /\ cbook_group_length(book, k) = cbook_group_length(pre, k)
          /\ cbook_word_index(book, k, 0) = cbook_word_index(pre, k, 0)
    /\ Capacities(book) = Capacities(pre)
    /\ book.chars = pre.chars
    /\ book.err = CERR_NONE

\* C28 as stated.  cbook_pop_group with groups_number >= 1 removes the last group and all its
\* words at once, and new_group is set if and only if no group remains; with groups_number
\* 0 it changes nothing; earlier words and groups stay readable and unchanged.
C28_PopGroupFlagIff ==
    (target = "cbook" /\ call.op = "cbook_pop_group") =>
        /\ cbook_groups_number(pre) >= 1 =>
              /\ GroupPopped
              /\ book.new_group <=> cbook_groups_number(book) = 0
        /\ cbook_groups_number(pre) = 0 => book = pre

\* C28, amended.  The same, new_group being set when no group remains and keeping the value
\* it had otherwise (set if a prepare_new_group was pending, clear if not).
C28_PopGroup ==
    (target = "cbook" /\ call.op = "cbook_pop_group") =>
        /\ cbook_groups_number(pre) >= 1 =>
              /\ GroupPopped
              /\ cbook_groups_number(book) = 0 => book.new_group
              /\ cbook_groups_number(book) >= 1 => book.new_group = pre.new_group
        /\ cbook_groups_number(pre) = 0 => book = pre

\* C28 witness: pop_group removed a group of two words at once and set new_group.
C28_Witness ==
    /\ target = "cbook"
    /\ call.op = "cbook_pop_group"
    /\ pre.err = CERR_NONE
    /\ cbook_groups_number(pre) = 1
    /\ cbook_group_length(pre, 0) = 2
    /\ ~pre.new_group
    /\ cbook_words_number(book) = 0
    /\ cbook_length(book) = 0
    /\ book.new_group

\* C29.  cbook_pop_word with words_number >= 1 removes the last word and no other
\* (words_number is one less, length is the byte offset at which that word started);
\* groups_number is one less exactly when the word removed was the only one of the last group
\* and is unchanged otherwise; with words_number 0 the call changes nothing.
C29_PopWord ==
    (target = "cbook" /\ call.op = "cbook_pop_word") =>
        /\ cbook_words_number(pre) >= 1 =>
              LET sole == /\ cbook_groups_number(pre) >= 1
                          /\ cbook_group_length(pre, cbook_groups_number(pre) - 1) = 1
              IN  /\ cbook_words_number(book) = cbook_words_number(pre) - 1
                  /\ cbook_length(book) = pre.words[pre.n_words - 1]
                  /\ \A i \in 0 .. (book.n_words - 1) : cbook_word(book, i) = cbook_word(pre, i)
                  /\ cbook_groups_number(book) = cbook_groups_number(pre) - (IF sole THEN 1 ELSE 0)
        /\ cbook_words_number(pre) = 0 => book = pre

\* C30.  Group and local addressing agrees with global addressing: every group
\* g < groups_number has a recorded start, and for every local index l < group_length(g),
\* word_index(g, l) is that start plus l and word_in_group(g, l) is the string
\* word(word_index(g, l)); with g or l out of range, or under error, word_in_group returns the
\* empty string, word_index 0 and group_length 0; word(i) with i >= words_number returns the
\* empty string.
C30_Addressing ==
    target = "cbook" =>
        /\ \A g \in 0 .. (cbook_groups_number(book) - 1) : g \in DOMAIN book.groups
        /\ \A g \in 0 .. (cbook_groups_number(book) - 1) :
              \A l \in 0 .. (cbook_group_length(book, g) - 1) :
                  /\ cbook_word_index(book, g, l) = book.groups[g] + l
                  /\ cbook_word_index(book, g, l) < cbook_words_number(book)
                  /\ cbook_word_in_group(book, g, l) = cbook_word(book, cbook_word_index(book, g, l))
        /\ \A g \in 0 .. (book.n_groups + 1) :
              /\ (book.err # CERR_NONE \/ g >= book.n_groups) => cbook_group_length(book, g) = 0
              /\ \A l \in 0 .. (book.n_words + 1) :
                    (book.err # CERR_NONE \/ g >= book.n_groups \/ l >= cbook_group_length(book, g)) =>
                        /\ cbook_word_in_group(book, g, l) = <<>>
                        /\ cbook_word_index(book, g, l) = 0
        /\ \A i \in 0 .. (book.n_words + 1) :
              (book.err # CERR_NONE \/ i >= book.n_words) => cbook_word(book, i) = <<>>

\* C31.  Memory safety of index arithmetic: no call on a valid instance indexes an array
\* outside its allocation; cbook_pop_word does not read groups[n_groups - 1] while n_groups
\* is 0, cbook_write stores at groups[n_groups], words[n_words] and chars[n_chars ..] below
\* their capacities, and cref_push and cinputs_push store at slots[n] with n < n_alloc.
C31_MemorySafety ==
    handle = "valid" =>
        /\ ~oob
        /\ (call.op = "cbook_pop_word" /\ pre.err = CERR_NONE /\ pre.n_words > 0) =>
              pre.n_groups > 0
        /\ (call.op = "cbook_write" /\ pre.err = CERR_NONE /\ book.err = CERR_NONE) =>
              /\ pre.n_words < book.n_alloc_words
              /\ pre.new_group => pre.n_groups < book.n_alloc_groups
              /\ pre.n_chars + Len(call.arg[1]) + 1 <= book.n_alloc_chars
        /\ (call.op = "cref_push" /\ ref.n > pre.n) => pre.n < ref.n_alloc
        /\ (call.op = "cinputs_push" /\ pre.err = CERR_NONE /\ inputs.n > 0) =>
              inputs.n - 1 < inputs.n_alloc

RECURSIVE LengthOfGroups(_, _)
\* The sum of cbook_group_length(b, g) over the groups g < k.
LengthOfGroups(b, k) ==
    IF k = 0 THEN 0 ELSE cbook_group_length(b, k - 1) + LengthOfGroups(b, k - 1)

\* C32.  Groups partition the words: in an error-free book, words_number > 0 implies
\* groups_number > 0 and a first group that starts at word 0, no group is empty, and the
\* group lengths add up to words_number.
C32_GroupsPartition ==
    (target = "cbook" /\ book.err = CERR_NONE) =>
        /\ cbook_words_number(book) > 0 => cbook_groups_number(book) > 0
        /\ \A g \in 0 .. (cbook_groups_number(book) - 1) : g \in DOMAIN book.groups
        /\ cbook_groups_number(book) > 0 => book.groups[0] = 0
        /\ \A g \in 0 .. (cbook_groups_number(book) - 1) : cbook_group_length(book, g) >= 1
        /\ LengthOfGroups(book, cbook_groups_number(book)) = cbook_words_number(book)

\* C33.  cbook_write terminates: in an error-free book n_chars <= n_alloc_chars and
\* n_alloc_chars >= 1, so that nc - n_chars does not underflow, and for a string of any
\* length the doubling loop ends after finitely many doublings, either with a capacity nc
\* such that strlen(str) + 1 <= nc - n_chars or, when a doubling would pass the size limit,
\* with error OVERFLOW; the capacity cbook_write asks for is the one the loop ends with.
C33_WriteTerminates ==
    (target = "cbook" /\ book.err = CERR_NONE) =>
        /\ book.n_alloc_chars >= 1
        /\ book.n_chars <= book.n_alloc_chars
        /\ \A ns \in 1 .. SIZE_MAX :
              LET r == write_loop(book.n_alloc_chars, book.n_chars, ns, 0, SIZE_MAX) IN
              /\ r.end \in {"fits", "overflow"}
              /\ r.k < SIZE_MAX
              /\ r.nc >= book.n_alloc_chars
              /\ r.end = "fits" => (r.nc <= SIZE_MAX /\ ns <= r.nc - book.n_chars)
              /\ r.end = "overflow" => (r.nc * 2 > SIZE_MAX /\ ns > r.nc - book.n_chars)
              /\ write_nc(book.n_alloc_chars, book.n_chars, ns) = [ok |-> r.end = "fits", nc |-> r.nc]
        /\ (call.op = "cbook_write" /\ pre.err = CERR_NONE) =>
              LET r == write_loop(pre.n_alloc_chars, pre.n_chars, Len(call.arg[1]) + 1, 0, SIZE_MAX) IN
              /\ r.end = "fits"
              /\ book.n_alloc_chars = r.nc

\* C33 witness: a write to a book whose bytes were all taken doubled the byte capacity, and
\* from the book it left the loop ends with OVERFLOW for the longest string.
C33_Witness ==
    /\ target = "cbook"
    /\ call.op = "cbook_write"
    /\ pre.err = CERR_NONE
    /\ book.err = CERR_NONE
    /\ pre.n_chars = pre.n_alloc_chars
    /\ pre.n_chars >= 2
    /\ write_loop(pre.n_alloc_chars, pre.n_chars, Len(call.arg[1]) + 1, 0, SIZE_MAX).k >= 1
    /\ book.n_alloc_chars = 2 * pre.n_alloc_chars
    /\ write_loop(book.n_alloc_chars, book.n_chars, SIZE_MAX, 0, SIZE_MAX).end = "overflow"

====
